---- MODULE Spec2Model ----
(***************************************************************************)
(* Model of the room-crawler text adventure (src/6/game.py, the final      *)
(* variant): the Section graph, the Character hierarchy with its           *)
(* encounter results, and the Game command loop.                           *)
(*                                                                         *)
(* Python str values that the code inspects (command lines, names) are     *)
(* sequences of one-character strings, so that startswith, split and join  *)
(* are computed as the code computes them.  Texts that are only printed    *)
(* are TLA+ strings.  An optional value (X | None) is <<>> for None and    *)
(* <<x>> for a value x.                                                    *)
(***************************************************************************)
EXTENDS Integers, Sequences, FiniteSets

VARIABLES attached_sections, items, characters, heap, current_section,
          inventory, out, raised, pc, attach_calls

vars == <<attached_sections, items, characters, heap, current_section,
          inventory, out, raised, pc, attach_calls>>

-----------------------------------------------------------------------------
(* Bounds of the model *)

NumSections == 2
MaxAttach == 2
MaxInventory == 4
MaxHeap == 5

Sections == 1..NumSections

-----------------------------------------------------------------------------
(* Optional values *)

None == <<>>
Some(x) == <<x>>

-----------------------------------------------------------------------------
(* Python str operations on sequences of characters *)

\* str.startswith
StartsWith(s, prefix) == Len(prefix) <= Len(s) /\ SubSeq(s, 1, Len(prefix)) = prefix

\* str.find, 1-based; 0 when sep does not occur in s at or after position i
RECURSIVE FindFrom(_, _, _)
FindFrom(s, sep, i) == IF i + Len(sep) - 1 > Len(s) THEN 0 ELSE IF SubSeq(s, i, i + Len(sep) - 1) = sep THEN i ELSE FindFrom(s, sep, i + 1)

\* str.split(sep) for a non-empty separator
RECURSIVE Split(_, _)
Split(s, sep) == LET i == FindFrom(s, sep, 1) IN IF i = 0 THEN <<s>> ELSE <<SubSeq(s, 1, i - 1)>> \o Split(SubSeq(s, i + Len(sep), Len(s)), sep)

\* sep.join(parts)
RECURSIVE Join(_, _)
Join(sep, parts) == IF parts = <<>> THEN <<>> ELSE IF Len(parts) = 1 THEN parts[1] ELSE parts[1] \o sep \o Join(sep, Tail(parts))

\* parts[1:]
Slice1(parts) == IF parts = <<>> THEN <<>> ELSE Tail(parts)

Space == <<" ">>
On == <<" ", "o", "n", " ">>

-----------------------------------------------------------------------------
(* Direction *)

NORTH == 0
EAST == 1
SOUTH == 2
WEST == 3

Directions == {NORTH, EAST, SOUTH, WEST}

\* Direction.name
DirectionName(d) == CASE d = NORTH -> <<"N", "O", "R", "T", "H">> [] d = EAST -> <<"E", "A", "S", "T">> [] d = SOUTH -> <<"S", "O", "U", "T", "H">> [] d = WEST -> <<"W", "E", "S", "T">>

\* Direction(value): the member with that value, None where the enum raises ValueError
DirectionOf(value) == IF value \in Directions THEN Some(value) ELSE None

\* the opposite direction as the data model defines it
Opposite(d) == (d + 2) % 4

-----------------------------------------------------------------------------
(* dict[Direction, Section], kept in insertion order as Python dicts are *)

DictHas(dct, k) == \E i \in 1..Len(dct) : dct[i].key = k

\* dict.get(k, None)
DictGet(dct, k) == IF DictHas(dct, k) THEN Some((dct[CHOOSE i \in 1..Len(dct) : dct[i].key = k]).value) ELSE None

\* dct[k] = v: an existing key keeps its position, a new key goes last
DictSet(dct, k, v) == IF DictHas(dct, k) THEN [i \in 1..Len(dct) |-> IF dct[i].key = k THEN [key |-> k, value |-> v] ELSE dct[i]] ELSE Append(dct, [key |-> k, value |-> v])

-----------------------------------------------------------------------------
(* Section.attach *)

\* reverse_direction = Direction(direction.value + 2 % 4); % binds tighter than +
ReverseDirection(direction) == DirectionOf(direction + (2 % 4))

\* The whole of Section.attach on the dicts `as`: the forward link is stored
\* first, then the reverse direction is computed (and may raise), then the
\* reverse link is stored.
SectionAttach(as, self, direction, section) == LET fwd == [as EXCEPT ![self] = DictSet(as[self], direction, section)] rev == ReverseDirection(direction) IN IF rev = None THEN [attached_sections |-> fwd, raised |-> "ValueError"] ELSE [attached_sections |-> [fwd EXCEPT ![section] = DictSet(fwd[section], rev[1], self)], raised |-> "none"]

\* Section.get_section
GetSection(as, self, direction) == DictGet(as[self], direction)

-----------------------------------------------------------------------------
(* The names and command words that occur in the program and in the inputs *)

N_Homework == <<"H", "o", "m", "e", "w", "o", "r", "k">>
N_Cactus == <<"C", "a", "c", "t", "u", "s">>
N_ExamResults == <<"E", "x", "a", "m", " ", "r", "e", "s", "u", "l", "t", "s">>
N_Knife == <<"K", "n", "i", "f", "e">>
N_GoldenApple == <<"G", "o", "l", "d", "e", "n", " ", "A", "p", "p", "l", "e">>
N_Burger == <<"B", "u", "r", "g", "e", "r">>
N_Exam == <<"E", "x", "a", "m">>
N_Grades == <<"G", "r", "a", "d", "e", "s">>
N_Key == <<"K", "e", "y">>
N_Jack == <<"J", "a", "c", "k">>
N_MrSmith == <<"M", "r", ".", " ", "S", "m", "i", "t", "h">>
N_Smaug == <<"S", "m", "a", "u", "g">>
N_Nobody == <<"N", "o", "b", "o", "d", "y">>
W_talk == <<"t", "a", "l", "k">>
W_take == <<"t", "a", "k", "e">>
W_use == <<"u", "s", "e">>
W_look == <<"l", "o", "o", "k">>
W_north == <<"n", "o", "r", "t", "h">>

-----------------------------------------------------------------------------
(* Item *)

\* Item(name, description, worry_description)
Item(name, description, worry_description) ==
    [cls |-> "Item", name |-> name, description |-> description, worry_description |-> worry_description]

\* GoldenApple(): the dataclass defaults; the program builds no other GoldenApple
GoldenApple ==
    [cls |-> "GoldenApple", name |-> N_GoldenApple, description |-> "A golden apple", worry_description |-> "what if you eat it?"]

\* isinstance(item, GoldenApple)
IsGoldenApple(item) == item.cls = "GoldenApple"

\* a == b on two Items.  Item.__eq__ compares names; GoldenApple is a dataclass
\* without an __eq__ of its own, so it gets the generated one: field by field
\* against another GoldenApple, NotImplemented otherwise (Python then falls
\* back on Item.__eq__ of the other operand).
ItemEq(a, b) ==
    IF IsGoldenApple(a) /\ IsGoldenApple(b)
    THEN a.name = b.name /\ a.description = b.description /\ a.worry_description = b.worry_description
    ELSE a.name = b.name

\* item in list, for a list of Items
ItemIn(item, list) == \E i \in 1..Len(list) : ItemEq(list[i], item)

\* RemoveFirst with the bug of dropping the last element equal to item
Mutant_RemoveLast(list, item) ==
    LET i == CHOOSE k \in 1..Len(list) : ItemEq(list[k], item) /\ \A j \in (k + 1)..Len(list) : ~ItemEq(list[j], item)
    IN SubSeq(list, 1, i - 1) \o SubSeq(list, i + 1, Len(list))

\* list.remove(item): drops the first element equal to item
RemoveFirst(list, item) ==
    LET i == CHOOSE k \in 1..Len(list) : ItemEq(list[k], item) /\ \A j \in 1..(k - 1) : ~ItemEq(list[j], item)
    IN SubSeq(list, 1, i - 1) \o SubSeq(list, i + 1, Len(list))

\* the items the program and the seeded worlds create
Homework == Item(N_Homework, "A book about Python", "A book about Python")
Cactus == Item(N_Cactus, "A cactus", "A cactus")
Knife == Item(N_Knife, "A knife", "how I'm going to kill myself")
DragonKnife == Item(N_Knife, "stabby stabby", "uhoh it's ebiller than me")
ExamResults == Item(N_ExamResults, "Exam results", "how well I did on my exam")
TeacherExamResults == Item(N_ExamResults, "Exam results", "how well my students did")
TeacherCactus == Item(N_Cactus, "A cactus", "how I'm going to decorate my office")
Burger == Item(N_Burger, "A burger", "what I'm going to eat")
Exam == Item(N_Exam, "An exam", "how well I did on my exam")
StudentHomework == Item(N_Homework, "Homework", "how much homework I have")
Grades == Item(N_Grades, "Grades", "how well my students did")
TeacherHomework == Item(N_Homework, "Homework", "how much homework I have to grade")
BrassKey == Item(N_Key, "A brass key", "a locked door")
IronKey == Item(N_Key, "An iron key", "a locked door")

-----------------------------------------------------------------------------
(* Printed lines.  A line is its format text, the names substituted into   *)
(* it (character sequences) and the flavour texts substituted into it.     *)

Line(fmt, names, texts) == [fmt |-> fmt, names |-> names, texts |-> texts]

NoSuchCommand == Line("No such command", <<>>, <<>>)
NoSuchCharacter == Line("No such character", <<>>, <<>>)
NoSuchItem == Line("No such item", <<>>, <<>>)
CannotGo == Line("You can't go that way", <<>>, <<>>)
NothingHappened == Line("Nothing happened.", <<>>, <<>>)
YouKilled(name) == Line("You killed {name}", <<name>>, <<>>)
YouTraded(exchanged_for, item) == Line("You traded {exchanged_for.name} for {item.name}.", <<exchanged_for.name, item.name>>, <<>>)

-----------------------------------------------------------------------------
(* EncounterResult and EncounterSummary *)

EncounterSummary(inventory_additions, inventory_removals, character_additions, character_removals) ==
    [inventory_additions |-> inventory_additions, inventory_removals |-> inventory_removals,
     character_additions |-> character_additions, character_removals |-> character_removals]

EmptyEncounterResult == [kind |-> "EmptyEncounterResult"]
AnnottatedEncounterResult(annotation) == [kind |-> "AnnottatedEncounterResult", annotation |-> annotation]
Transaction(item, exchanged_for) == [kind |-> "Transaction", item |-> item, exchanged_for |-> exchanged_for]
\* old_character and new_character are references to Character objects
CharacterSwap(old_character, new_character) ==
    [kind |-> "CharacterSwap", old_character |-> old_character, new_character |-> new_character]

\* result.summary
Summary(result) ==
    CASE result.kind = "Transaction" -> EncounterSummary(<<result.item>>, <<result.exchanged_for>>, <<>>, <<>>)
      [] result.kind = "CharacterSwap" -> EncounterSummary(<<>>, <<>>, <<result.new_character>>, <<result.old_character>>)
      [] OTHER -> EncounterSummary(<<>>, <<>>, <<>>, <<>>)

\* result.description; h is the heap of Character objects
ResultDescription(h, result) ==
    CASE result.kind = "EmptyEncounterResult" -> NothingHappened
      [] result.kind = "AnnottatedEncounterResult" -> result.annotation
      [] result.kind = "Transaction" -> YouTraded(result.exchanged_for, result.item)
      [] result.kind = "CharacterSwap" ->
           Line("{old.name}, a {old class} transformed into {new.name}, a {new class}.",
                <<h[result.old_character].name, h[result.new_character].name>>,
                <<h[result.old_character].cls, h[result.new_character].cls>>)

-----------------------------------------------------------------------------
(* Characters.  Enemy and Friend leave Character.description abstract and  *)
(* cannot be instantiated; the objects of the game are Zombies, Dragons,   *)
(* Students and Teachers.  A Character object is a cell of `heap`, and a   *)
(* reference to it is its index.                                           *)

Character(cls, name, weaknesses, sells, alive) ==
    [cls |-> cls, name |-> name, weaknesses |-> weaknesses, sells |-> sells, alive |-> alive]

Zombie(name) == Character("Zombie", name, <<>>, <<>>, FALSE)
Dragon(name) == Character("Dragon", name, <<DragonKnife>>, <<>>, TRUE)
StudentSells == <<Transaction(Knife, ExamResults), Transaction(GoldenApple, Burger)>>
Student(name) == Character("Student", name, <<Exam, StudentHomework>>, StudentSells, TRUE)
TeacherSells == <<Transaction(TeacherExamResults, TeacherCactus)>>
Teacher(name) == Character("Teacher", name, <<Grades, TeacherHomework>>, TeacherSells, TRUE)
TeacherWith(name, sells) == Character("Teacher", name, <<Grades, TeacherHomework>>, sells, TRUE)

IsEnemy(c) == c.cls \in {"Zombie", "Dragon"}
IsFriend(c) == c.cls \in {"Student", "Teacher"}

\* list == list on lists of Items
ItemListEq(a, b) == Len(a) = Len(b) /\ \A i \in 1..Len(a) : ItemEq(a[i], b[i])

\* Transaction == Transaction, the generated dataclass comparison
TransactionEq(a, b) == ItemEq(a.item, b.item) /\ ItemEq(a.exchanged_for, b.exchanged_for)

TransactionListEq(a, b) == Len(a) = Len(b) /\ \A i \in 1..Len(a) : TransactionEq(a[i], b[i])

\* a == b on two Character references: the same object, or two objects of
\* the same class whose dataclass fields compare equal
CharacterEq(h, a, b) ==
    \/ a = b
    \/ /\ h[a].cls = h[b].cls
       /\ h[a].name = h[b].name
       /\ ItemListEq(h[a].weaknesses, h[b].weaknesses)
       /\ TransactionListEq(h[a].sells, h[b].sells)
       /\ h[a].alive = h[b].alive

\* character in list, for a list of Character references
CharacterIn(h, c, list) == \E i \in 1..Len(list) : CharacterEq(h, list[i], c)

\* item in list, for an Item and a list of Characters: Item.__eq__ answers
\* False for anything that is not an Item
ItemInCharacters(item, list) == \E i \in 1..Len(list) : FALSE

\* Character.worries
Worries(c) == [i \in 1..Len(c.weaknesses) |-> c.weaknesses[i].worry_description]

\* Enemy.complain
Complain(c) ==
    IF Worries(c) # <<>> THEN Line("I'm so worried about {worries}", <<>>, Worries(c))
    ELSE Line("I'm not worried about anything.", <<>>, <<>>)

\* Character.description of the four concrete classes
CharacterDescription(c) ==
    CASE c.cls = "Zombie" -> Line("I'm a zombie woo hoo! I'm also dead.", <<>>, <<>>)
      [] c.cls = "Dragon" -> Line("An ebil dragon :3", <<>>, <<>>)
      [] c.cls = "Student" -> Line("I'm a student. I'm worried about {worries}", <<>>, Worries(c))
      [] c.cls = "Teacher" -> Line("I'm a teacher. I'm worried about {worries}", <<>>, Worries(c))

\* Character.greeting, with Enemy.greeting adding the complaint on a new line
Greeting(c) ==
    LET d == CharacterDescription(c)
        base == Line("Hello I am {name} - " \o d.fmt, <<c.name>>, d.texts)
    IN IF IsEnemy(c)
       THEN Line(base.fmt \o "\n" \o Complain(c).fmt, base.names, base.texts \o Complain(c).texts)
       ELSE base

\* GetAttackedWith with the bug of comparing every field of the Item
Mutant_GetAttackedWithAllFields(c, item) == \E i \in 1..Len(c.weaknesses) : c.weaknesses[i] = item

\* Enemy.get_attacked_with
GetAttackedWith(c, item) == ItemIn(item, c.weaknesses)

\* Enemy.encounter on the object `self` of heap h: the new heap and the result
EnemyEncounter(h, self, item) ==
    IF GetAttackedWith(h[self], item)
    THEN [heap |-> [h EXCEPT ![self].alive = FALSE], result |-> AnnottatedEncounterResult(YouKilled(h[self].name))]
    ELSE [heap |-> h, result |-> EmptyEncounterResult]

\* ZombieEncounter with the bug of changing the Zombie itself into the Student
Mutant_ZombieEncounterInPlace(h, self, item) ==
    IF IsGoldenApple(item)
    THEN [heap |-> [h EXCEPT ![self] = Student(h[self].name)], result |-> CharacterSwap(self, self)]
    ELSE EnemyEncounter(h, self, item)

\* Zombie.encounter; Student(self.name) is a new object
ZombieEncounter(h, self, item) ==
    IF IsGoldenApple(item)
    THEN [heap |-> Append(h, Student(h[self].name)), result |-> CharacterSwap(self, Len(h) + 1)]
    ELSE EnemyEncounter(h, self, item)

\* FriendScan with the bug of keeping the last matching entry
Mutant_FriendScanLast(sells, item, i) ==
    LET m == {k \in i..Len(sells) : ItemEq(sells[k].exchanged_for, item)}
    IN IF m = {} THEN EmptyEncounterResult ELSE sells[CHOOSE k \in m : \A j \in m : j <= k]

\* the loop of Friend.encounter from position i of sells
RECURSIVE FriendScan(_, _, _)
FriendScan(sells, item, i) ==
    IF i > Len(sells) THEN EmptyEncounterResult
    ELSE IF ItemEq(sells[i].exchanged_for, item) THEN sells[i]
    ELSE FriendScan(sells, item, i + 1)

\* Friend.encounter
FriendEncounter(h, self, item) == [heap |-> h, result |-> FriendScan(h[self].sells, item, 1)]

\* character.encounter(item), dispatched on the class of the object
Encounter(h, self, item) ==
    CASE h[self].cls = "Zombie" -> ZombieEncounter(h, self, item)
      [] h[self].cls = "Dragon" -> EnemyEncounter(h, self, item)
      [] OTHER -> FriendEncounter(h, self, item)

-----------------------------------------------------------------------------
(* Section lookups *)

\* Section.get_character on a roster of Character references: the first
\* character with that name, or None
RECURSIVE GetCharacterFrom(_, _, _, _)
GetCharacterFrom(h, roster, name, i) ==
    IF i > Len(roster) THEN None
    ELSE IF h[roster[i]].name = name THEN Some(roster[i])
    ELSE GetCharacterFrom(h, roster, name, i + 1)

GetCharacter(h, roster, name) == GetCharacterFrom(h, roster, name, 1)

\* GetItemFrom that keeps searching and returns the last item with that name
Mutant_GetItemLast(list, name, i) ==
    LET m == {k \in i..Len(list) : list[k].name = name}
    IN IF m = {} THEN None ELSE Some(list[CHOOSE k \in m : \A j \in m : j <= k])

\* Section.get_item: the first item with that name, or None
RECURSIVE GetItemFrom(_, _, _)
GetItemFrom(list, name, i) ==
    IF i > Len(list) THEN None
    ELSE IF list[i].name = name THEN Some(list[i])
    ELSE GetItemFrom(list, name, i + 1)

GetItem(list, name) == GetItemFrom(list, name, 1)

\* Section.actions: one Command per attached direction in dict order, then
\* talk, take and use
Command(name, kind, direction) == [name |-> name, kind |-> kind, direction |-> direction]

\* SectionActions that offers a command for every Direction, linked or not
Mutant_SectionActionsAllDirections(as, self) ==
    [i \in 1..4 |-> Command(DirectionName(i - 1), "move", Some(i - 1))]
    \o <<Command(W_talk, "talk", None), Command(W_take, "take", None), Command(W_use, "use", None)>>

SectionActions(as, self) ==
    [i \in 1..Len(as[self]) |-> Command(DirectionName(as[self][i].key), "move", Some(as[self][i].key))]
    \o <<Command(W_talk, "talk", None), Command(W_take, "take", None), Command(W_use, "use", None)>>

-----------------------------------------------------------------------------
(* Game.  A game value g holds the fields a command can change:            *)
(* g.items and g.characters (the lists of every Section), g.heap,          *)
(* g.current_section, g.inventory, the lines printed so far in this        *)
(* iteration (g.out) and the exception that ended it (g.raised).           *)

Say(g, line) == [g EXCEPT !.out = Append(@, line)]

\* ApplyResult with the inventory filtered on summary.inventory_removals
Mutant_ApplyResultRemovesItems(g, result) ==
    LET summary == Summary(result)
        roster == g.characters[g.current_section]
    IN Say([g EXCEPT
                !.inventory = SelectSeq(g.inventory, LAMBDA item : ~ItemIn(item, summary.inventory_removals))
                              \o summary.inventory_additions,
                !.characters[g.current_section] =
                              SelectSeq(roster, LAMBDA character : ~CharacterIn(g.heap, character, summary.character_removals))
                              \o summary.character_additions],
             ResultDescription(g.heap, result))

\* ApplyResult that updates the inventory and prints, and leaves the roster
Mutant_ApplyResultInventoryOnly(g, result) ==
    LET summary == Summary(result)
    IN Say([g EXCEPT
                !.inventory = SelectSeq(g.inventory, LAMBDA item : ~ItemInCharacters(item, summary.character_removals))
                              \o summary.inventory_additions],
             ResultDescription(g.heap, result))

\* ApplyResult that puts an added character into the slot of the removed one
Mutant_ApplyResultSameSlot(g, result) ==
    LET summary == Summary(result)
        roster == g.characters[g.current_section]
    IN Say([g EXCEPT
                !.inventory = SelectSeq(g.inventory, LAMBDA item : ~ItemInCharacters(item, summary.character_removals))
                              \o summary.inventory_additions,
                !.characters[g.current_section] =
                              IF summary.character_additions = <<>> THEN roster
                              ELSE [q \in 1..Len(roster) |->
                                       IF CharacterIn(g.heap, roster[q], summary.character_removals)
                                       THEN summary.character_additions[1] ELSE roster[q]]],
             ResultDescription(g.heap, result))

\* Game.apply_result
ApplyResult(g, result) ==
    LET summary == Summary(result)
        roster == g.characters[g.current_section]
    IN Say([g EXCEPT
                !.inventory = SelectSeq(g.inventory, LAMBDA item : ~ItemInCharacters(item, summary.character_removals))
                              \o summary.inventory_additions,
                !.characters[g.current_section] =
                              SelectSeq(roster, LAMBDA character : ~CharacterIn(g.heap, character, summary.character_removals))
                              \o summary.character_additions],
             ResultDescription(g.heap, result))

\* the for loop of Game.use from position i of the list `inv` it iterates:
\* the list object bound to self.inventory when the loop began.  There is no
\* break, so every item of that name is used
RECURSIVE UseLoop(_, _, _, _, _)
UseLoop(g, character, item_name, inv, i) ==
    IF i > Len(inv) THEN g
    ELSE IF inv[i].name = item_name
         THEN LET e == Encounter(g.heap, character, inv[i])
              IN UseLoop(ApplyResult([g EXCEPT !.heap = e.heap], e.result), character, item_name, inv, i + 1)
         ELSE UseLoop(g, character, item_name, inv, i + 1)

\* GameUse that reports an item the player does not hold
Mutant_GameUseReports(g, character, item_name) ==
    IF character = None THEN Say(g, NoSuchCharacter)
    ELSE IF \A k \in 1..Len(g.inventory) : g.inventory[k].name # item_name THEN Say(g, NoSuchItem)
    ELSE UseLoop(g, character[1], item_name, g.inventory, 1)

\* Game.use; character is a reference or None
GameUse(g, character, item_name) ==
    IF character = None THEN Say(g, NoSuchCharacter)
    ELSE UseLoop(g, character[1], item_name, g.inventory, 1)

\* Game.take; item is an Item or None
GameTake(g, item) ==
    IF item = None THEN Say(g, NoSuchItem)
    ELSE [g EXCEPT !.inventory = Append(@, item[1]),
                   !.items[g.current_section] = RemoveFirst(@, item[1])]

\* GameMove with the bug of looking the link up in the opposite direction
Mutant_GameMoveOpposite(as, g, direction) ==
    LET section == GetSection(as, g.current_section, Opposite(direction))
    IN IF section = None THEN Say(g, CannotGo)
       ELSE [g EXCEPT !.current_section = section[1]]

\* GameMove that stays without a message when there is no link
Mutant_GameMoveSilent(as, g, direction) ==
    LET section == GetSection(as, g.current_section, direction)
    IN IF section = None THEN g
       ELSE [g EXCEPT !.current_section = section[1]]

\* Game.move
GameMove(as, g, direction) ==
    LET section == GetSection(as, g.current_section, direction)
    IN IF section = None THEN Say(g, CannotGo)
       ELSE [g EXCEPT !.current_section = section[1]]

\* the action of the talk Command of Section `self`
TalkAction(g, self, character_name) ==
    LET character == GetCharacter(g.heap, g.characters[self], character_name)
    IN IF character # None THEN Say(g, Greeting(g.heap[character[1]]))
       ELSE Say(g, NoSuchCharacter)

\* the action of the take Command of Section `self`
TakeAction(g, self, item_name) == GameTake(g, GetItem(g.items[self], item_name))

\* the action of the use Command of Section `self`: the arguments of
\* game.use are evaluated first, and command_args.split(" on ")[1] raises
\* IndexError when the text holds no " on "
UseAction(g, self, command_args) ==
    LET parts == Split(command_args, On)
    IN IF Len(parts) < 2 THEN [g EXCEPT !.raised = "IndexError"]
       ELSE GameUse(g, GetCharacter(g.heap, g.characters[self], parts[2]), parts[1])

\* action.action(args, game) of a Command built by Section `self`
RunCommand(as, g, self, action, args) ==
    CASE action.kind = "move" -> GameMove(as, g, action.direction[1])
      [] action.kind = "talk" -> TalkAction(g, self, args)
      [] action.kind = "take" -> TakeAction(g, self, args)
      [] action.kind = "use" -> UseAction(g, self, args)

\* FirstMatch with the operands of startswith exchanged
Mutant_FirstMatchReversed(actions, command, i) ==
    LET m == {k \in i..Len(actions) : StartsWith(actions[k].name, command)}
    IN IF m = {} THEN None ELSE Some(actions[CHOOSE k \in m : \A j \in m : k <= j])

\* the first action whose name the command starts with, from position i
RECURSIVE FirstMatch(_, _, _)
FirstMatch(actions, command, i) ==
    IF i > Len(actions) THEN None
    ELSE IF StartsWith(command, actions[i].name) THEN Some(actions[i])
    ELSE FirstMatch(actions, command, i + 1)

\* Game.iteration on the line `command` read from the input (the section
\* description and the command list it prints first are left out of g.out)
GameIteration(as, g, command) ==
    LET actions == SectionActions(as, g.current_section)
        found == FirstMatch(actions, command, 1)
    IN IF found = None THEN Say(g, NoSuchCommand)
       ELSE RunCommand(as, g, g.current_section, found[1], Join(Space, Slice1(Split(command, Space))))

-----------------------------------------------------------------------------
(* The worlds the game is played in.  World 1 is the one main() builds;    *)
(* the others place the same kinds of objects so that names repeat.        *)

Worlds == {"main", "keys", "market"}

\* the items appended to Section s
WorldItems(w, s) ==
    CASE w = "main" /\ s = 1 -> <<Homework, Cactus>>
      [] w = "main" /\ s = 2 -> <<GoldenApple>>
      [] w = "keys" /\ s = 1 -> <<BrassKey, IronKey, Knife>>
      [] w = "market" /\ s = 1 -> <<ExamResults, GoldenApple>>
      [] w = "market" /\ s = 2 -> <<GoldenApple>>
      [] OTHER -> <<>>

\* the Characters appended to Section s
WorldCharacters(w, s) ==
    CASE w = "main" /\ s = 1 -> <<Zombie(N_Jack)>>
      [] w = "main" /\ s = 2 -> <<Teacher(N_MrSmith), Dragon(N_Smaug)>>
      [] w = "keys" /\ s = 1 -> <<Dragon(N_Jack), Dragon(N_Smaug)>>
      [] w = "market" /\ s = 1 -> <<Zombie(N_Jack), TeacherWith(N_MrSmith, <<Transaction(Cactus, ExamResults), Transaction(Knife, ExamResults)>>)>>
      [] OTHER -> <<>>

\* the heap after the Characters of Sections 1..s were created in order
RECURSIVE WorldHeap(_, _)
WorldHeap(w, s) == IF s = 0 THEN <<>> ELSE WorldHeap(w, s - 1) \o WorldCharacters(w, s)

\* the roster of Section s: references to its Characters
WorldRoster(w, s) == [i \in 1..Len(WorldCharacters(w, s)) |-> Len(WorldHeap(w, s - 1)) + i]

NoLinks == [s \in Sections |-> <<>>]

-----------------------------------------------------------------------------
(* The input lines a player types *)

ItemNames == {N_Homework, N_Cactus, N_GoldenApple, N_Key, N_Knife, N_ExamResults, N_Burger}
CharacterNames == {N_Jack, N_MrSmith, N_Smaug, N_Nobody}

TakeLine(item_name) == W_take \o Space \o item_name
TalkLine(character_name) == W_talk \o Space \o character_name
UseLine(item_name, character_name) == W_use \o Space \o item_name \o On \o character_name

InputLines ==
    {DirectionName(d) : d \in Directions}
    \cup {W_north, <<>>, W_look, W_use, W_take, W_talk, W_use \o Space \o N_Knife}
    \cup {TakeLine(n) : n \in ItemNames}
    \cup {TalkLine(n) : n \in CharacterNames}
    \cup {UseLine(i, c) : i \in ItemNames \ {N_Homework, N_Burger}, c \in CharacterNames}

-----------------------------------------------------------------------------
(* State machine *)

\* the Game object and the world it can change, as a game value
CurrentGame ==
    [items |-> items, characters |-> characters, heap |-> heap, current_section |-> current_section,
     inventory |-> inventory, out |-> <<>>, raised |-> "none"]

\* the Sections while the world is being built, before anything is attached
InitGraph ==
    /\ attached_sections = NoLinks
    /\ items = [s \in Sections |-> <<>>]
    /\ characters = [s \in Sections |-> <<>>]
    /\ heap = <<>>
    /\ current_section = 1
    /\ inventory = <<>>
    /\ out = <<>>
    /\ raised = "none"
    /\ pc = "build"
    /\ attach_calls = 0

\* a call self.attach(direction, section) by the code that builds the world;
\* a ValueError it raises is left to that caller
Attach(self, direction, section) ==
    /\ pc = "build"
    /\ attach_calls < MaxAttach
    /\ \E r \in {SectionAttach(attached_sections, self, direction, section)} :
          /\ attached_sections' = r.attached_sections
          /\ raised' = r.raised
    /\ attach_calls' = attach_calls + 1
    /\ UNCHANGED <<items, characters, heap, current_section, inventory, out, pc>>

NextGraph == \E self \in Sections, direction \in Directions, section \in Sections : Attach(self, direction, section)

SpecGraph == InitGraph /\ [][NextGraph]_vars

\* the state when mainloop() starts: a world seeded as main() seeds one, two
\* Sections joined by one attach call that returned, and Game(start_section)
Init ==
    \E w \in Worlds, self \in {1, 2}, direction \in Directions :
        LET r == SectionAttach(NoLinks, self, direction, 3 - self)
        IN /\ r.raised = "none"
           /\ attached_sections = r.attached_sections
           /\ items = [s \in Sections |-> WorldItems(w, s)]
           /\ characters = [s \in Sections |-> WorldRoster(w, s)]
           /\ heap = WorldHeap(w, NumSections)
           /\ current_section = 1
           /\ inventory = <<>>
           /\ out = <<>>
           /\ raised = "none"
           /\ pc = "mainloop"
           /\ attach_calls = 1

\* one pass of the loop of Game.mainloop: iteration() on the line read; an
\* exception that iteration() raises ends mainloop()
Iteration(command) ==
    /\ pc = "mainloop"
    /\ \E g \in {GameIteration(attached_sections, CurrentGame, command)} :
          /\ Len(g.inventory) <= MaxInventory
          /\ Len(g.heap) <= MaxHeap
          /\ items' = g.items
          /\ characters' = g.characters
          /\ heap' = g.heap
          /\ current_section' = g.current_section
          /\ inventory' = g.inventory
          /\ out' = g.out
          /\ raised' = g.raised
          /\ pc' = IF g.raised = "none" THEN "mainloop" ELSE "terminated"
    /\ UNCHANGED <<attached_sections, attach_calls>>

Next == \E command \in InputLines : Iteration(command)

Spec == Init /\ [][Next]_vars

\* a call game.move(direction) between two passes of the loop, by code that
\* drives the Game through its methods
Move(direction) ==
    /\ pc = "mainloop"
    /\ \E g \in {GameMove(attached_sections, CurrentGame, direction)} :
          /\ items' = g.items
          /\ characters' = g.characters
          /\ heap' = g.heap
          /\ current_section' = g.current_section
          /\ inventory' = g.inventory
          /\ out' = g.out
          /\ raised' = g.raised
    /\ UNCHANGED <<attached_sections, attach_calls, pc>>

NextCalls ==
    \/ \E direction \in Directions : Move(direction)
    \/ \E command \in InputLines : Iteration(command)

\* the game driven by input lines and by direct calls of Game.move
SpecCalls == Init /\ [][NextCalls]_vars

-----------------------------------------------------------------------------
(* The earliest variant (src/5/game.py): Room.link_room and Room.move.     *)
(* In the specification of this variant attached_sections holds the links  *)
(* dict of every Room, current_section is the Room the caller holds, and   *)
(* directions are passed as text.                                          *)

Lowers == <<"a", "e", "h", "n", "o", "p", "r", "s", "t", "u", "w">>
Uppers == <<"A", "E", "H", "N", "O", "P", "R", "S", "T", "U", "W">>

\* str.upper on the letters that occur in the inputs
Upper(s) ==
    [k \in 1..Len(s) |->
        IF \E i \in 1..Len(Lowers) : Lowers[i] = s[k]
        THEN Uppers[CHOOSE i \in 1..Len(Lowers) : Lowers[i] = s[k]]
        ELSE s[k]]

\* Direction[name]: the member of that name, or None where Python raises KeyError
DirectionByName(name) ==
    IF \E d \in Directions : DirectionName(d) = name
    THEN Some(CHOOSE d \in Directions : DirectionName(d) = name)
    ELSE None

\* the message of Room.move
RoomCannotGo == Line("You cannot go that way.", <<>>, <<>>)

\* RoomLinkRoom with the reverse direction computed as Section.attach of the
\* final variant computes it
Mutant_RoomLinkRoomAsAttach(links, self, other, direction) ==
    LET r == IF DirectionByName(Upper(direction)) = None THEN [attached_sections |-> links, raised |-> "KeyError"]
             ELSE SectionAttach(links, self, DirectionByName(Upper(direction))[1], other)
    IN [links |-> r.attached_sections, raised |-> r.raised]

\* Room.link_room: the forward link is stored first, then the reverse
\* direction is computed as Direction((value + 2) % 4), then the reverse
\* link is stored
RoomLinkRoom(links, self, other, direction) ==
    LET key == DirectionByName(Upper(direction))
    IN IF key = None THEN [links |-> links, raised |-> "KeyError"]
       ELSE LET fwd == [links EXCEPT ![self] = DictSet(links[self], key[1], other)]
                rev == DirectionOf((key[1] + 2) % 4)
            IN IF rev = None THEN [links |-> fwd, raised |-> "ValueError"]
               ELSE [links |-> [fwd EXCEPT ![other] = DictSet(fwd[other], rev[1], self)], raised |-> "none"]

\* Room.move: the Room returned, the lines printed and the exception raised
RoomMove(links, self, direction_name) ==
    LET direction == DirectionByName(Upper(direction_name))
    IN IF direction = None THEN [room |-> self, out |-> <<>>, raised |-> "KeyError"]
       ELSE IF DictHas(links[self], direction[1])
            THEN [room |-> DictGet(links[self], direction[1])[1], out |-> <<>>, raised |-> "none"]
            ELSE [room |-> self, out |-> <<RoomCannotGo>>, raised |-> "none"]

\* the texts passed as directions: the four names in lower case, two other
\* spellings, and a text that names no Direction
DirectionWords ==
    {<<"n", "o", "r", "t", "h">>, <<"e", "a", "s", "t">>, <<"s", "o", "u", "t", "h">>, <<"w", "e", "s", "t">>,
     <<"N", "O", "R", "T", "H">>, <<"W", "e", "s", "t">>, <<"u", "p">>}

\* the Rooms before any is linked
InitRooms ==
    /\ attached_sections = NoLinks
    /\ items = [s \in Sections |-> <<>>]
    /\ characters = [s \in Sections |-> <<>>]
    /\ heap = <<>>
    /\ current_section = 1
    /\ inventory = <<>>
    /\ out = <<>>
    /\ raised = "none"
    /\ pc = "rooms"
    /\ attach_calls = 0

\* a call self.link_room(other, direction) by the code that builds the
\* rooms; a KeyError it raises is left to that caller
LinkRoom(self, other, direction) ==
    /\ pc = "rooms"
    /\ attach_calls < MaxAttach
    /\ \E r \in {RoomLinkRoom(attached_sections, self, other, direction)} :
          /\ attached_sections' = r.links
          /\ raised' = r.raised
    /\ attach_calls' = attach_calls + 1
    /\ UNCHANGED <<items, characters, heap, current_section, inventory, out, pc>>

\* current_room = current_room.move(direction_name), once the rooms are built
MoveRoom(direction_name) ==
    /\ pc \in {"rooms", "moving"}
    /\ \E m \in {RoomMove(attached_sections, current_section, direction_name)} :
          /\ current_section' = m.room
          /\ out' = m.out
          /\ raised' = m.raised
    /\ pc' = "moving"
    /\ UNCHANGED <<attached_sections, items, characters, heap, inventory, attach_calls>>

NextRooms ==
    \/ \E self \in Sections, other \in Sections, direction \in DirectionWords : LinkRoom(self, other, direction)
    \/ \E direction_name \in DirectionWords : MoveRoom(direction_name)

SpecRooms == InitRooms /\ [][NextRooms]_vars

-----------------------------------------------------------------------------
(* Helpers of the properties *)

\* the number of items named `name` in a list of Items
RECURSIVE CountNamed(_, _)
CountNamed(list, name) ==
    IF list = <<>> THEN 0
    ELSE (IF Head(list).name = name THEN 1 ELSE 0) + CountNamed(Tail(list), name)

\* the least position of an item named `name` (the list holds one)
FirstNamed(list, name) == CHOOSE i \in 1..Len(list) : list[i].name = name /\ \A j \in 1..(i - 1) : list[j].name # name

\* the list without its element at position i
Without(list, i) == SubSeq(list, 1, i - 1) \o SubSeq(list, i + 1, Len(list))

\* the number of items lying in the Sections and held by the player
RECURSIVE ItemsInSections(_, _)
ItemsInSections(its, s) == IF s = 0 THEN 0 ELSE Len(its[s]) + ItemsInSections(its, s - 1)

\* the Section linked to `self` in direction d, as the links stand
Link(self, d) == GetSection(attached_sections, self, d)

-----------------------------------------------------------------------------
(* C1 - C2: Section.attach *)

\* C1: for every direction d and Sections A, B, A.attach(d, B) completes and
\* afterwards A's link in direction d is B and B's link in direction
\* (d + 2) mod 4 is A.
C1_AttachLinksBothWays ==
    [][\A self \in Sections, d \in Directions, section \in Sections :
          Attach(self, d, section) =>
              /\ raised' = "none"
              /\ GetSection(attached_sections', self, d) = Some(section)
              /\ GetSection(attached_sections', section, Opposite(d)) = Some(self)]_vars

\* C2: after any sequence of attach calls the link graph is symmetric:
\* whenever A links to B via d, B links to A via opposite(d).
C2_LinksSymmetric ==
    \A a \in Sections, d \in Directions :
        Link(a, d) # None => Link(Link(a, d)[1], Opposite(d)) = Some(a)

-----------------------------------------------------------------------------
(* C3: moving by typing a direction *)

\* C3 as stated: with the current Section linked NORTH, one iteration()
\* reading the line `north` moves the Game to the linked Section.
C3_LowercaseNorthMoves ==
    [][(Link(current_section, NORTH) # None /\ Iteration(W_north)) =>
          current_section' = Link(current_section, NORTH)[1]]_vars

\* C3 as amended: a line that is the name of a Direction member (upper case)
\* in which the current Section has a link moves the Game to the linked
\* Section and prints nothing; the line `north` is no command: it prints
\* "No such command" and the Game stays.
C3_DirectionNameMoves ==
    [][/\ \A d \in Directions :
             (Link(current_section, d) # None /\ Iteration(DirectionName(d))) =>
                 /\ current_section' = Link(current_section, d)[1]
                 /\ out' = <<>>
       /\ Iteration(W_north) => (current_section' = current_section /\ out' = <<NoSuchCommand>>)]_vars

\* the Game stands in Section 2 of a world whose Section 1 has the single
\* link NORTH to Section 2: it got there by the command NORTH
C3_Witness ==
    /\ attached_sections[1] = <<[key |-> NORTH, value |-> 2]>>
    /\ current_section = 2
    /\ pc = "mainloop"

-----------------------------------------------------------------------------
(* C4: take *)

\* C4: when the current Section holds an item named N, `take N` appends the
\* first such item to the inventory and removes exactly that one from the
\* Section's items; the current Section, the rosters, the characters, the
\* links and the items of the other Sections stay as they were, and the
\* number of items in the world is conserved.
C4_TakeMovesFirstItem ==
    [][\A n \in ItemNames :
          (GetItem(items[current_section], n) # None /\ Iteration(TakeLine(n))) =>
              LET i == FirstNamed(items[current_section], n)
              IN /\ inventory' = Append(inventory, items[current_section][i])
                 /\ items' = [items EXCEPT ![current_section] = Without(@, i)]
                 /\ UNCHANGED <<current_section, characters, heap, attached_sections>>
                 /\ out' = <<>>
                 /\ ItemsInSections(items', NumSections) + Len(inventory')
                        = ItemsInSections(items, NumSections) + Len(inventory)]_vars

\* the first of two items named Key was taken: it is held and the second
\* one still lies in the Section
C4_Witness ==
    /\ inventory = <<BrassKey>>
    /\ items[1] = <<IronKey, Knife>>
    /\ out = <<>>

-----------------------------------------------------------------------------
(* C5 - C6: Enemy.encounter and Friend.encounter *)

\* the Items an encounter is tried with
AllItems ==
    {Homework, Cactus, Knife, DragonKnife, ExamResults, TeacherExamResults, TeacherCactus, Burger,
     Exam, StudentHomework, Grades, TeacherHomework, BrassKey, IronKey, GoldenApple}

\* the objects of heap h
Objects(h) == 1..Len(h)

\* an item with the name of `item` is among the weaknesses of c
NamedInWeaknesses(c, item) == \E i \in 1..Len(c.weaknesses) : c.weaknesses[i].name = item.name

\* the character a `use ... on name` command of the current Section resolves
CurrentCharacter(name) == GetCharacter(heap, characters[current_section], name)

\* Enemy.encounter in every reachable state, on every object that runs it (a
\* Dragon with any item, a Zombie with any item but a GoldenApple)
C5_EncounterOfEnemy ==
    \A c \in Objects(heap), item \in AllItems :
        (IsEnemy(heap[c]) /\ ~(heap[c].cls = "Zombie" /\ IsGoldenApple(item))) =>
            LET e == Encounter(heap, c, item)
                again == Encounter(e.heap, c, item)
            IN /\ (heap[c].alive /\ ~e.heap[c].alive) <=> (heap[c].alive /\ NamedInWeaknesses(heap[c], item))
               /\ ~NamedInWeaknesses(heap[c], item) => (e.heap = heap /\ e.result = EmptyEncounterResult)
               /\ NamedInWeaknesses(heap[c], item) => e.result = AnnottatedEncounterResult(YouKilled(heap[c].name))
               /\ \A o \in Objects(heap) \ {c} : e.heap[o] = heap[o]
               /\ ~heap[c].alive => e.heap = heap
               /\ again.heap = e.heap

\* a `use I on C` command on an Enemy that is alive, with an item named I held
C5_UseOnEnemy ==
    \A i \in ItemNames, n \in CharacterNames :
        (/\ CurrentCharacter(n) # None
         /\ heap[CurrentCharacter(n)[1]].cls = "Dragon"
         /\ CountNamed(inventory, i) > 0
         /\ Iteration(UseLine(i, n))) =>
            LET c == CurrentCharacter(n)[1]
                hit == \E k \in 1..Len(heap[c].weaknesses) : heap[c].weaknesses[k].name = i
            IN /\ heap'[c].alive = (heap[c].alive /\ ~hit)
               /\ hit => \A k \in 1..Len(out') : out'[k] = YouKilled(n)
               /\ ~hit => (heap' = heap /\ \A k \in 1..Len(out') : out'[k] = NothingHappened)
               /\ Len(out') = CountNamed(inventory, i)

\* C5: Enemy.encounter(item) makes alive false exactly when an item of that
\* name is among the weaknesses (the outcome is then "You killed <name>"), a
\* non-weakness item leaves the Enemy as it was, and the encounter repeated on
\* the dead Enemy leaves its state as it is; no step other than such an
\* encounter makes an Enemy dead.
C5_EnemyEncounter ==
    /\ []C5_EncounterOfEnemy
    /\ [][C5_UseOnEnemy]_vars
    /\ [][\A c \in Objects(heap) : (heap[c].alive /\ ~heap'[c].alive) =>
              (IsEnemy(heap[c]) /\ \E k \in 1..Len(out') : out'[k] = YouKilled(heap[c].name))]_vars

\* the player holds a Knife and the Dragon Jack, whose weakness is the
\* Knife, was killed by the last command
C5_Witness ==
    /\ \E c \in Objects(heap) : heap[c] = [Dragon(N_Jack) EXCEPT !.alive = FALSE]
    /\ out = <<YouKilled(N_Jack)>>
    /\ CountNamed(inventory, N_Knife) = 1

\* the positions of sells whose exchanged_for has the name of item
Matching(sells, item) == {i \in 1..Len(sells) : sells[i].exchanged_for.name = item.name}

Least(S) == CHOOSE i \in S : \A j \in S : i <= j

\* Friend.encounter in every reachable state, on every Friend and item
C6_EncounterOfFriend ==
    \A c \in Objects(heap), item \in AllItems :
        IsFriend(heap[c]) =>
            LET e == Encounter(heap, c, item)
                m == Matching(heap[c].sells, item)
            IN /\ m # {} => e.result = heap[c].sells[Least(m)]
               /\ m = {} => e.result = EmptyEncounterResult
               /\ e.heap = heap

\* C6: Friend.encounter(item) returns the first entry of sells whose
\* exchanged_for has the name of item when there is one and the Empty result
\* otherwise, and sells is the same list before and after: no step of the
\* game changes the sells of an object.
C6_FriendEncounter ==
    /\ []C6_EncounterOfFriend
    /\ [][\A c \in Objects(heap) : heap'[c].sells = heap[c].sells]_vars

\* the Teacher of the market world sells a Cactus and a Knife for Exam
\* results, in that order; the player traded and received the Cactus
C6_Witness ==
    /\ \E c \in Objects(heap) : Len(heap[c].sells) = 2 /\ Matching(heap[c].sells, ExamResults) = {1, 2}
    /\ out = <<YouTraded(ExamResults, Cactus)>>
    /\ inventory = <<ExamResults, Cactus>>

-----------------------------------------------------------------------------
(* C7 - C8: trading with a Friend *)

\* `use i on n` is a trade: n names a Friend of the current Section that
\* sells something for an item named i, and the player holds such an item
TradeOffered(i, n) ==
    /\ CurrentCharacter(n) # None
    /\ IsFriend(heap[CurrentCharacter(n)[1]])
    /\ CountNamed(inventory, i) > 0
    /\ \E k \in 1..Len(heap[CurrentCharacter(n)[1]].sells) : heap[CurrentCharacter(n)[1]].sells[k].exchanged_for.name = i

\* the Transaction of that trade: the first entry of sells given for i
TradeOf(i, n) ==
    LET sells == heap[CurrentCharacter(n)[1]].sells
    IN sells[Least({k \in 1..Len(sells) : sells[k].exchanged_for.name = i})]

\* C7: when the player uses a held item B on a Friend of the current Section
\* that sells Transaction(item=A, exchangedFor=B), the inventory afterwards
\* has gained A and has lost B.
C7_TradeGainsAndLoses ==
    [][\A i \in ItemNames, n \in CharacterNames :
          (TradeOffered(i, n) /\ Iteration(UseLine(i, n))) =>
              /\ CountNamed(inventory', TradeOf(i, n).item.name) > CountNamed(inventory, TradeOf(i, n).item.name)
              /\ CountNamed(inventory', i) < CountNamed(inventory, i)]_vars

\* Game.apply_result on a Transaction, in every reachable state and for
\* every Transaction a Friend sells
C8_ApplyOfTransaction ==
    \A c \in Objects(heap) : \A k \in 1..Len(heap[c].sells) :
        LET t == heap[c].sells[k]
            g == ApplyResult(CurrentGame, t)
        IN /\ Summary(t).inventory_removals = <<t.exchanged_for>>
           /\ Summary(t).character_removals = <<>>
           /\ g.inventory = Append(inventory, t.item)
           /\ g.characters = characters
           /\ g.out = <<YouTraded(t.exchanged_for, t.item)>>

\* C8: Game.apply_result never consults inventory_removals: applying a
\* Transaction(item=A, exchangedFor=B) leaves the inventory as it was, B
\* included and in order, with A appended; a `use B on <friend>` command
\* appends one A for every held item named B and removes nothing.
C8_TransactionKeepsExchanged ==
    /\ []C8_ApplyOfTransaction
    /\ [][\A i \in ItemNames, n \in CharacterNames :
             (TradeOffered(i, n) /\ Iteration(UseLine(i, n))) =>
                 /\ inventory' = inventory \o [j \in 1..CountNamed(inventory, i) |-> TradeOf(i, n).item]
                 /\ \A j \in 1..Len(out') : out'[j] = YouTraded(TradeOf(i, n).exchanged_for, TradeOf(i, n).item)
                 /\ UNCHANGED <<characters, heap, items, current_section>>]_vars

\* main()'s world: the player gave the Teacher the Cactus for Exam results
\* and still holds the Cactus
C8_Witness ==
    /\ inventory = <<Cactus, TeacherExamResults>>
    /\ out = <<YouTraded(TeacherCactus, TeacherExamResults)>>
    /\ current_section = 2

-----------------------------------------------------------------------------
(* C9: the Zombie and the GoldenApple *)

\* the roster without the characters equal to z
RosterMinus(h, roster, z) == SelectSeq(roster, LAMBDA c : ~CharacterEq(h, c, z))

\* Zombie.encounter with a GoldenApple and the application of its result, in
\* every reachable state and for every Zombie of the current Section
C9_SwapOfZombie ==
    \A z \in Objects(heap) :
        (heap[z].cls = "Zombie" /\ \E k \in 1..Len(characters[current_section]) : characters[current_section][k] = z) =>
            LET e == Encounter(heap, z, GoldenApple)
                new == Len(heap) + 1
                g == ApplyResult([CurrentGame EXCEPT !.heap = e.heap], e.result)
            IN /\ e.result = CharacterSwap(z, new)
               /\ e.heap = Append(heap, Student(heap[z].name))
               /\ g.characters = [characters EXCEPT ![current_section] =
                                     Append(RosterMinus(heap, characters[current_section], z), new)]
               /\ g.inventory = inventory
               /\ g.heap = e.heap

\* C9: using a GoldenApple on a Zombie of the current Section yields a
\* CharacterSwap whose application makes the roster of the current Section
\* the old roster minus the Zombie, followed by one new Student with the
\* Zombie's name; the Zombie object is not changed and the other rosters are
\* not changed.  A `use Golden Apple on <zombie>` command applies one such
\* swap for every GoldenApple held.
C9_ZombieBecomesStudent ==
    /\ []C9_SwapOfZombie
    /\ [][\A n \in CharacterNames :
             (/\ CurrentCharacter(n) # None
              /\ heap[CurrentCharacter(n)[1]].cls = "Zombie"
              /\ CountNamed(inventory, N_GoldenApple) > 0
              /\ Iteration(UseLine(N_GoldenApple, n))) =>
                 LET z == CurrentCharacter(n)[1]
                     k == CountNamed(inventory, N_GoldenApple)
                 IN /\ heap' = heap \o [j \in 1..k |-> Student(n)]
                    /\ characters' = [characters EXCEPT ![current_section] =
                                         RosterMinus(heap, @, z) \o [j \in 1..k |-> Len(heap) + j]]
                    /\ UNCHANGED <<inventory, items, current_section>>]_vars

\* main()'s world: the Zombie Jack of Section 1 was swapped for one new
\* Student named Jack, and the Zombie object is as it was
C9_Witness ==
    /\ heap[1] = Zombie(N_Jack)
    /\ Len(heap) = 4
    /\ heap[4] = Student(N_Jack)
    /\ characters[1] = <<4>>
    /\ current_section = 1
    /\ Len(out) = 1 /\ out[1].names = <<N_Jack, N_Jack>>

-----------------------------------------------------------------------------
(* C10: iteration() and exceptions *)

\* C10: for every reachable state and every input line, iteration()
\* completes without raising, so mainloop() goes on to the next iteration.
C10_IterationNeverRaises == pc = "mainloop" /\ raised = "none"

-----------------------------------------------------------------------------
(* C11: a line that is no command *)

\* the line starts with the name of no command the current Section offers:
\* neither a direction it has a link in, nor talk, take or use
NoCommandNamed(line) ==
    /\ \A d \in Directions : Link(current_section, d) # None => ~StartsWith(line, DirectionName(d))
    /\ \A w \in {W_talk, W_take, W_use} : ~StartsWith(line, w)

\* what iteration() does with such a line, in every reachable state
C11_AnswerToUnknown ==
    \A line \in InputLines :
        NoCommandNamed(line) =>
            GameIteration(attached_sections, CurrentGame, line)
                = [CurrentGame EXCEPT !.out = <<Line("No such command", <<>>, <<>>)>>]

\* C11: an input line that starts with none of the current Section's command
\* names prints "No such command" and leaves the whole game state as it was:
\* the current Section, the inventory, every Section's items and roster,
\* every character, and (as in every iteration) the links.
C11_UnknownCommandChangesNothing ==
    /\ []C11_AnswerToUnknown
    /\ [][pc = "mainloop" => attached_sections' = attached_sections]_vars

\* a line that is no command was answered while the player held something
C11_Witness ==
    /\ out = <<NoSuchCommand>>
    /\ inventory # <<>>
    /\ pc = "mainloop"

-----------------------------------------------------------------------------
(* C12: Game.move *)

\* what a call game.move(d) does, given the line it prints when the current
\* Section has no link in direction d
MoveDoes(d, failure) ==
    Move(d) =>
        IF Link(current_section, d) = None
        THEN /\ out' = <<failure>>
             /\ raised' = "none"
             /\ UNCHANGED <<current_section, inventory, items, characters, heap, attached_sections>>
        ELSE /\ current_section' = Link(current_section, d)[1]
             /\ out' = <<>>
             /\ raised' = "none"
             /\ UNCHANGED <<inventory, items, characters, heap, attached_sections>>

\* C12 as stated: Game.move(direction) without a link in that direction
\* changes nothing and prints "You cannot go that way."; with a link it
\* makes the linked Section current and changes nothing else.
C12_MoveSaysCannot ==
    [][\A d \in Directions : MoveDoes(d, Line("You cannot go that way.", <<>>, <<>>))]_vars

\* C12: Game.move(direction) without a link in that direction prints
\* "You can't go that way" and leaves the current Section, the inventory,
\* the items, the rosters, the characters and the links as they were; with
\* a link it prints nothing, makes the linked Section current and leaves
\* everything else as it was.
C12_MoveFollowsLink ==
    [][\A d \in Directions : MoveDoes(d, Line("You can't go that way", <<>>, <<>>))]_vars

\* game.move was called in a direction without a link, by a player who
\* holds an item in the second Section
C12_Witness ==
    /\ out = <<CannotGo>>
    /\ inventory # <<>>
    /\ current_section = 2

-----------------------------------------------------------------------------
(* C13: names of characters and items that are not there *)

\* the positions of the roster that hold a character named n
CharacterPositions(roster, n) == {k \in 1..Len(roster) : heap[roster[k]].name = n}

\* the positions of the list that hold an item named n
ItemPositions(list, n) == {k \in 1..Len(list) : list[k].name = n}

\* Section.get_character and Section.get_item, for every Section and name
C13_LookupIsFirstMatch ==
    \A s \in Sections :
        /\ \A n \in CharacterNames :
              LET m == CharacterPositions(characters[s], n)
              IN GetCharacter(heap, characters[s], n)
                     = IF m = {} THEN None ELSE Some(characters[s][Least(m)])
        /\ \A n \in ItemNames :
              LET m == ItemPositions(items[s], n)
              IN GetItem(items[s], n) = IF m = {} THEN None ELSE Some(items[s][Least(m)])

\* iteration() on a talk, use or take line that names what the current
\* Section does not hold
C13_AnswerToAbsent ==
    /\ \A n \in CharacterNames :
          CharacterPositions(characters[current_section], n) = {} =>
              /\ GameIteration(attached_sections, CurrentGame, TalkLine(n))
                     = [CurrentGame EXCEPT !.out = <<Line("No such character", <<>>, <<>>)>>]
              /\ \A i \in ItemNames :
                     GameIteration(attached_sections, CurrentGame, UseLine(i, n))
                         = [CurrentGame EXCEPT !.out = <<Line("No such character", <<>>, <<>>)>>]
    /\ \A i \in ItemNames :
          ItemPositions(items[current_section], i) = {} =>
              GameIteration(attached_sections, CurrentGame, TakeLine(i))
                  = [CurrentGame EXCEPT !.out = <<Line("No such item", <<>>, <<>>)>>]

\* C13: a talk or use command naming a character that is not in the current
\* Section prints "No such character", a take command naming an item that
\* does not lie there prints "No such item", and neither changes any state
\* or raises; get_character and get_item return the first entry of the list
\* with that name, or None when there is none.
C13_AbsentNamesAreReported ==
    /\ C13_LookupIsFirstMatch
    /\ C13_AnswerToAbsent

\* the player took an item and asked for an item that does not lie in the
\* current Section
C13_Witness ==
    /\ out = <<NoSuchItem>>
    /\ inventory # <<>>
    /\ \E n \in ItemNames : ItemPositions(items[current_section], n) = {}

-----------------------------------------------------------------------------
(* C14: use of an item the player does not hold *)

\* C14: `use <item> on <character>` with the character in the current
\* Section and no item of that name in the inventory does nothing: the
\* iteration prints no line, raises nothing, and leaves the inventory, the
\* items, the rosters, every character object (its alive flag included) and
\* the current Section as they were.
C14_UseWithoutItemIsSilent ==
    \A n \in CharacterNames, i \in ItemNames :
        (CurrentCharacter(n) # None /\ ItemPositions(inventory, i) = {}) =>
            GameIteration(attached_sections, CurrentGame, UseLine(i, n)) = CurrentGame

\* the player holds the Homework and stands before the Teacher and the
\* Dragon with nothing printed: the state a `use Knife on Smaug` typed in
\* it leads to
C14_Witness ==
    /\ out = <<>>
    /\ pc = "mainloop"
    /\ inventory = <<Homework>>
    /\ CurrentCharacter(N_Smaug) # None
    /\ ItemPositions(inventory, N_Knife) = {}

-----------------------------------------------------------------------------
(* C15: one use command, one encounter *)

\* C15: one `use <item> on <character>` command triggers one encounter and
\* one apply_result, however many items of that name the player holds: it
\* prints at most one outcome, adds at most one item to the inventory and
\* at most one character to the roster of the current Section, and creates
\* at most one character.
C15_OneUseOneEncounter ==
    [][\A i \in ItemNames, n \in CharacterNames :
          Iteration(UseLine(i, n)) =>
              /\ Len(out') <= 1
              /\ Len(inventory') <= Len(inventory) + 1
              /\ Len(heap') <= Len(heap) + 1
              /\ Len(characters'[current_section]) <= Len(characters[current_section])]_vars

-----------------------------------------------------------------------------
(* C16: the updates of an encounter are applied together *)

\* the lines of `lines` printed with the format text fmt
LinesOf(lines, fmt) == {j \in 1..Len(lines) : lines[j].fmt = fmt}

\* the format texts of the descriptions of a Transaction and of a CharacterSwap
FmtOfTransaction == ResultDescription(heap, Transaction(GoldenApple, GoldenApple)).fmt
FmtOfCharacterSwap == ResultDescription(heap, CharacterSwap(1, 1)).fmt

\* the game when the next command is awaited after `use i on n`: every
\* encounter whose outcome was printed has both its updates in place
BothUpdatesApplied(g) ==
    LET traded == Cardinality(LinesOf(g.out, FmtOfTransaction))
        swapped == Cardinality(LinesOf(g.out, FmtOfCharacterSwap))
        before == characters[current_section]
        after == g.characters[current_section]
        arrived == {p \in 1..Len(after) : after[p] > Len(heap)}
        left == {p \in 1..Len(before) : \A q \in 1..Len(after) : after[q] # before[p]}
    IN /\ Len(g.inventory) = Len(inventory) + traded
       /\ Len(g.heap) = Len(heap) + swapped
       /\ Cardinality(arrived) = swapped
       /\ (left # {}) <=> (swapped > 0)
       /\ Len(after) = Len(before) - Cardinality(left) + swapped
       /\ \A s \in Sections \ {current_section} : g.characters[s] = characters[s]
       /\ g.items = items
       /\ g.current_section = current_section
       /\ g.raised # "none" => g = [CurrentGame EXCEPT !.raised = g.raised]

\* C16: at every point where the game awaits the next command, the updates
\* that apply_result makes for an encounter are in place together: each
\* printed trade has its item in the inventory, each printed swap has its
\* new character in the roster and its old character out of it, nothing
\* else has moved, and an iteration that ends in an exception has changed
\* nothing.
C16_UpdatesAppliedTogether ==
    /\ \A i \in ItemNames, n \in CharacterNames :
          BothUpdatesApplied(GameIteration(attached_sections, CurrentGame, UseLine(i, n)))
    /\ \A line \in {W_use, W_use \o Space \o N_Knife} :
          BothUpdatesApplied(GameIteration(attached_sections, CurrentGame, line))

\* the next command is awaited after a swap: the outcome is printed, the
\* new Student is the last of the roster and of the heap, and the player
\* still holds what was used
C16_Witness ==
    /\ pc = "mainloop"
    /\ out # <<>>
    /\ out[1].fmt = FmtOfCharacterSwap
    /\ characters[current_section] # <<>>
    /\ characters[current_section][Len(characters[current_section])] = Len(heap)
    /\ heap[Len(heap)].cls = "Student"
    /\ inventory # <<>>

-----------------------------------------------------------------------------
(* C17: attaching twice in one direction *)

\* the links as they stand, with one more Section that has no links yet
WithNewSection(as) == [s \in 1..(NumSections + 1) |-> IF s \in Sections THEN as[s] ELSE <<>>]

\* C17: from any link graph, a.attach(d, b) followed by a.attach(d, c)
\* completes and leaves a linked to c in direction d, c linked to a in the
\* opposite direction, and b still linked to a in the opposite direction.
C17_ReattachKeepsOldReverse ==
    \A a \in 1..(NumSections + 1), b \in 1..(NumSections + 1), c \in 1..(NumSections + 1), d \in Directions :
        LET first == SectionAttach(WithNewSection(attached_sections), a, d, b)
            second == SectionAttach(first.attached_sections, a, d, c)
        IN /\ first.raised = "none"
           /\ second.raised = "none"
           /\ GetSection(second.attached_sections, a, d) = Some(c)
           /\ GetSection(second.attached_sections, c, Opposite(d)) = Some(a)
           /\ GetSection(second.attached_sections, b, Opposite(d)) = Some(a)

-----------------------------------------------------------------------------
(* C18: an Enemy that is dead *)

\* C18: when the character a `use <item> on <name>` command resolves is an
\* Enemy other than a Zombie whose alive flag is false, and the item is held
\* and named among its weaknesses, the command has no encounter outcome: no
\* line is printed and no state changes.
C18_DeadEnemyHasNoEncounter ==
    [][\A i \in ItemNames, n \in CharacterNames :
          (/\ CurrentCharacter(n) # None
           /\ IsEnemy(heap[CurrentCharacter(n)[1]])
           /\ heap[CurrentCharacter(n)[1]].cls # "Zombie"
           /\ ~heap[CurrentCharacter(n)[1]].alive
           /\ CountNamed(inventory, i) > 0
           /\ \E k \in 1..Len(heap[CurrentCharacter(n)[1]].weaknesses) :
                 heap[CurrentCharacter(n)[1]].weaknesses[k].name = i
           /\ Iteration(UseLine(i, n))) =>
              /\ out' = <<>>
              /\ UNCHANGED <<heap, inventory, characters, items, current_section>>]_vars

-----------------------------------------------------------------------------
(* C19: the place of the new character in the roster *)

\* the Zombies of the current Section with their positions in the roster
ZombieAt(p) ==
    /\ p \in 1..Len(characters[current_section])
    /\ heap[characters[current_section][p]].cls = "Zombie"

\* the roster of the current Section after Zombie.encounter with a
\* GoldenApple on the character at position p and the application of its result
RosterAfterSwap(p) ==
    LET e == Encounter(heap, characters[current_section][p], GoldenApple)
    IN ApplyResult([CurrentGame EXCEPT !.heap = e.heap], e.result).characters[current_section]

\* C19 as stated: the new Student is at the index the Zombie had, and every
\* other character is at the index it had.
C19_SwapKeepsSlot ==
    \A p \in 1..Len(characters[current_section]) :
        ZombieAt(p) =>
            LET before == characters[current_section]
                after == RosterAfterSwap(p)
            IN /\ Len(after) = Len(before)
               /\ after[p] = Len(heap) + 1
               /\ \A q \in 1..Len(before) : q # p => after[q] = before[q]

\* the positions of the roster held by the Zombie at p or a character equal to it
Removed(p) ==
    {q \in 1..Len(characters[current_section]) :
        CharacterEq(heap, characters[current_section][q], characters[current_section][p])}

\* C19: applying a CharacterSwap takes the Zombie (and any character equal
\* to it) out of the roster of the current Section and puts the new Student
\* last: every other character moves down by the number of removed entries
\* before it, so the others keep their relative order, and the new Student
\* is at the last index, not at the index the Zombie had.
C19_SwapAppendsNewCharacter ==
    \A p \in 1..Len(characters[current_section]) :
        ZombieAt(p) =>
            LET before == characters[current_section]
                after == RosterAfterSwap(p)
            IN /\ Len(after) = Len(before) - Cardinality(Removed(p)) + 1
               /\ after[Len(after)] = Len(heap) + 1
               /\ \A q \in 1..Len(before) \ Removed(p) :
                     after[q - Cardinality({x \in Removed(p) : x < q})] = before[q]

\* the Zombie stood first and a Teacher second; after the swap the Teacher
\* is first and the new Student is second
C19_Witness ==
    /\ out # <<>>
    /\ out[1].fmt = FmtOfCharacterSwap
    /\ Len(characters[current_section]) = 2
    /\ heap[characters[current_section][1]].cls = "Teacher"
    /\ heap[characters[current_section][2]].cls = "Student"
    /\ characters[current_section][2] = Len(heap)
    /\ heap[1].cls = "Zombie"

-----------------------------------------------------------------------------
(* C20: the inventory only grows *)

\* list a is a prefix of list b
IsPrefix(a, b) == Len(a) <= Len(b) /\ SubSeq(b, 1, Len(a)) = a

\* a trade that is offered adds to the inventory, takes nothing from it and
\* is offered again afterwards, whatever the length of the inventory
C20_TradeRepeats ==
    \A i \in ItemNames, n \in CharacterNames :
        TradeOffered(i, n) =>
            LET g == GameIteration(attached_sections, CurrentGame, UseLine(i, n))
            IN /\ Len(g.inventory) > Len(inventory)
               /\ IsPrefix(inventory, g.inventory)
               /\ CountNamed(g.inventory, i) >= CountNamed(inventory, i)
               /\ g.heap = heap
               /\ g.characters = characters
               /\ g.current_section = current_section
               /\ g.raised = "none"

\* C20: the inventory before every command is a prefix of the inventory
\* after it, so no command removes an item; a trade whose exchanged_for item
\* is held adds an item and can be made again in the state it leads to, so
\* the length of the inventory has no bound.
C20_InventoryIsMonotone ==
    /\ [][IsPrefix(inventory, inventory')]_vars
    /\ []C20_TradeRepeats

\* the player gave the Teacher the Cactus twice and holds the Cactus and
\* both Exam results
C20_Witness ==
    /\ inventory = <<Cactus, TeacherExamResults, TeacherExamResults>>
    /\ out = <<YouTraded(TeacherCactus, TeacherExamResults)>>

-----------------------------------------------------------------------------
(* C21: the direction commands that are offered *)

\* the directions of the move commands Section.actions builds for `self`
OfferedDirections(self) ==
    LET actions == SectionActions(attached_sections, self)
    IN {actions[k].direction[1] : k \in {j \in 1..Len(actions) : actions[j].kind = "move"}}

\* every move command is named after its direction
OfferedByName(self) ==
    LET actions == SectionActions(attached_sections, self)
    IN \A k \in 1..Len(actions) :
          actions[k].kind = "move" => actions[k].name = DirectionName(actions[k].direction[1])

\* C21: in every state of the game driven through iteration(), the move
\* commands of the current Section are exactly its linked directions, each
\* under the name of its direction; the lines printed by the last iteration
\* do not hold the message of Game.move's failure branch; and the name of a
\* direction without a link, typed as a command, prints "No such command"
\* and changes nothing.
C21_OnlyLinkedDirectionsOffered ==
    /\ OfferedDirections(current_section) = {d \in Directions : Link(current_section, d) # None}
    /\ OfferedByName(current_section)
    /\ \A k \in 1..Len(out) : out[k] # CannotGo
    /\ \A d \in Directions :
          Link(current_section, d) = None =>
              GameIteration(attached_sections, CurrentGame, DirectionName(d))
                  = Say(CurrentGame, NoSuchCommand)

\* in the second Section, which has one link, a line that is no command
\* there was typed: three of the four direction names are such lines
C21_Witness ==
    /\ out = <<NoSuchCommand>>
    /\ current_section = 2
    /\ Cardinality(OfferedDirections(current_section)) = 1
    /\ Cardinality({d \in Directions : Link(current_section, d) = None}) = 3

-----------------------------------------------------------------------------
(* C22: Room.link_room and Room.move of the earliest variant *)

\* the texts of DirectionWords that spell Direction d, in any case
Spellings(d) == {w \in DirectionWords : DirectionByName(Upper(w)) = Some(d)}

\* every Direction has a spelling among the inputs
AllDirectionsSpelled == \A d \in Directions : Spellings(d) # {}

\* link_room from any reachable link graph, then move there and back; every
\* link graph is met while the rooms are being built, since moving changes
\* no link
C22_LinkThenThereAndBack ==
    pc = "rooms" =>
    \A d \in Directions : \A w \in Spellings(d), back \in Spellings(Opposite(d)) :
        \A self \in Sections, other \in Sections :
            \A r \in {RoomLinkRoom(attached_sections, self, other, w)} :
                /\ r.raised = "none"
                /\ DictGet(r.links[self], d) = Some(other)
                /\ DictGet(r.links[other], Opposite(d)) = Some(self)
                /\ \A there \in {RoomMove(r.links, self, w)} :
                      /\ there = [room |-> other, out |-> <<>>, raised |-> "none"]
                      /\ RoomMove(r.links, there.room, back) = [room |-> self, out |-> <<>>, raised |-> "none"]

\* move in a direction without a link, from any Room of any reachable graph
C22_MoveWithoutLink ==
    \A self \in Sections, d \in Directions : \A w \in Spellings(d) :
        DictGet(attached_sections[self], d) = None =>
            RoomMove(attached_sections, self, w)
                = [room |-> self, out |-> <<Line("You cannot go that way.", <<>>, <<>>)>>, raised |-> "none"]

\* C22: in the earliest variant, for each of the four directions d,
\* Room.link_room(other, d) raises nothing and stores links[d] = other and
\* other.links[(d + 2) mod 4] = self, so that move(d) from the room and then
\* move(opposite d) return the other room and then the room itself; and
\* Room.move in a direction without a link prints "You cannot go that way."
\* and returns the same room.
C22_RoomsLinkBothWays ==
    /\ AllDirectionsSpelled
    /\ C22_LinkThenThereAndBack
    /\ C22_MoveWithoutLink

\* one link_room call joined room 1 southwards to room 2, and the caller
\* moved south into room 2
C22_Witness ==
    /\ pc = "moving"
    /\ attach_calls = 1
    /\ DictGet(attached_sections[1], SOUTH) = Some(2)
    /\ DictGet(attached_sections[2], NORTH) = Some(1)
    /\ current_section = 2
    /\ out = <<>>
    /\ raised = "none"

====
